---- MODULE Spec2Model ----
(***************************************************************************)
(* StoryGraph of rasa_core/training/story_graph.py: grouping of story      *)
(* steps by checkpoint, the DFS topological sort with back-edge            *)
(* detection, the cycle breaker and the frontier-propagating story         *)
(* enumerator.                                                             *)
(*                                                                         *)
(* Step ids and checkpoint names are opaque in the code; they are          *)
(* integers here.  Python's None is the integer None below, the            *)
(* STORY_START checkpoint name is STORY_START.                             *)
(***************************************************************************)
EXTENDS Integers, Sequences, FiniteSets, TLC

\* ---------------------------------------------------------------- bounds
\* Largest number of story steps of an input step list.
MaxSteps == 3
\* Largest number of nodes of a raw adjacency dictionary (SpecSort).
MaxNodes == 3
\* with_cycles_removed is followed for graphs of at most this many back edges.
MaxCyclicEdges == 3
\* Largest max_number_of_trackers handed to build_stories.
MaxTrackers == 1

\* ------------------------------------------------------------- constants
\* Python's None: the end checkpoint name of a step that ends a story, and
\* the default of dict.get.
None == -1
\* dsl.STORY_START, the name of the checkpoint every story starts at.
STORY_START == 0
GRAY == 0
BLACK == 1

\* ------------------------------------------------------------- utilities
Range(f) == {f[x] : x \in DOMAIN f}

RECURSIVE SetToSeq(_)
SetToSeq(S) ==
    IF S = {} THEN <<>>
    ELSE LET m == CHOOSE x \in S : \A y \in S : x <= y
         IN <<m>> \o SetToSeq(S \ {m})

SetMax(S) == CHOOSE x \in S : \A y \in S : y <= x

\* dict.get(key, default)
Get(d, key, default) == IF key \in DOMAIN d THEN d[key] ELSE default

\* d[key] = value on a dict held as a function
Put(d, key, value) == (key :> value) @@ d

\* ------------------------------------------------------ topological_sort
RECURSIVE dfs(_, _, _)
RECURSIVE dfs_successors(_, _, _, _)
RECURSIVE sort_loop(_, _)

\* dfs_visit without "unprocessed.discard(k)".
dfs_visit_no_discard(graph, node, k, st) ==
    LET sk == Get(st.visited_nodes, k, None)
    IN IF sk = GRAY
       THEN [st EXCEPT !.removed_edges = @ \cup {<<node, k>>}]
       ELSE IF sk = BLACK
       THEN st
       ELSE dfs(graph, k, st)

\* dfs_visit that does not tell GRAY from BLACK: no edge is recorded.
dfs_visit_no_record(graph, node, k, st) ==
    LET sk == Get(st.visited_nodes, k, None)
    IN IF sk = GRAY \/ sk = BLACK
       THEN st
       ELSE dfs(graph, k, [st EXCEPT !.unprocessed = @ \ {k}])

\* One iteration of "for k in graph.get(node, ())": lines 182-189.
dfs_visit(graph, node, k, st) ==
    LET sk == Get(st.visited_nodes, k, None)
    IN IF sk = GRAY
       THEN [st EXCEPT !.removed_edges = @ \cup {<<node, k>>}]
       ELSE IF sk = BLACK
       THEN st
       ELSE dfs(graph, k, [st EXCEPT !.unprocessed = @ \ {k}])

dfs_successors(graph, node, i, st) ==
    LET succ == Get(graph, node, <<>>)
    IN IF i > Len(succ) THEN st
       ELSE dfs_successors(graph, node, i + 1,
                           dfs_visit(graph, node, succ[i], st))

\* dfs_finish with ordered.append(node) for ordered.appendleft(node).
dfs_finish_append(node, st) ==
    [st EXCEPT !.ordered = Append(@, node),
               !.visited_nodes = Put(@, node, BLACK)]

\* dfs_finish that leaves the node GRAY.
dfs_finish_gray(node, st) ==
    [st EXCEPT !.ordered = <<node>> \o @]

\* lines 190-191
dfs_finish(node, st) ==
    [st EXCEPT !.ordered = <<node>> \o @,
               !.visited_nodes = Put(@, node, BLACK)]

dfs(graph, node, st) ==
    dfs_finish(node,
        dfs_successors(graph, node, 1,
            [st EXCEPT !.visited_nodes = Put(@, node, GRAY)]))

\* "while unprocessed: dfs(unprocessed.pop())": set.pop() removes an
\* arbitrary element, so the loop yields the set of every possible result.
sort_loop(graph, st) ==
    IF st.unprocessed = {}
    THEN {[ordered |-> st.ordered, removed_edges |-> st.removed_edges]}
    ELSE UNION {sort_loop(graph,
                          dfs(graph, n, [st EXCEPT !.unprocessed = @ \ {n}]))
                : n \in st.unprocessed}

\* The possible results (ordered, removed_edges) of topological_sort(graph).
topological_sort(graph) ==
    sort_loop(graph, [ordered |-> <<>>,
                      unprocessed |-> DOMAIN graph,
                      visited_nodes |-> <<>>,
                      removed_edges |-> {}])

\* ----------------------------------------------------------- order_steps
\* step.start_checkpoint_name() / step.end_checkpoint_name()
start_checkpoint_name(step) == step.start
end_checkpoint_name(step) == step.end

StepsStartingAt(steps, c) ==
    SelectSeq(steps, LAMBDA s : start_checkpoint_name(s) = c)

\* _group_by_start_checkpoint: the defaultdict(list) after the loop; a key
\* that is absent reads as the empty list (see Get in order_graph).
group_by_start_checkpoint(steps) ==
    [c \in {start_checkpoint_name(steps[i]) : i \in 1..Len(steps)}
        |-> StepsStartingAt(steps, c)]

\* The adjacency dictionary order_steps builds.
order_graph(steps) ==
    LET checkpoints == group_by_start_checkpoint(steps)
    IN [id \in {steps[i].id : i \in 1..Len(steps)} |->
          LET s == steps[CHOOSE i \in 1..Len(steps) : steps[i].id = id]
              others == Get(checkpoints, end_checkpoint_name(s), <<>>)
          IN [j \in 1..Len(others) |-> others[j].id]]

order_steps(steps) == topological_sort(order_graph(steps))

\* ------------------------------------------------------------ StoryGraph
VARIABLES pc, graph, sorted,
          story_steps, step_lookup, ordered_ids, cyclic_edge_ids,
          story_end_checkpoints,
          original,
          max_number_of_trackers, trace, result

vars == <<pc, graph, sorted, story_steps, step_lookup, ordered_ids,
          cyclic_edge_ids, story_end_checkpoints, original,
          max_number_of_trackers, trace, result>>

sortVars == <<graph, sorted>>
graphVars == <<story_steps, step_lookup, ordered_ids, cyclic_edge_ids,
               story_end_checkpoints>>
buildVars == <<max_number_of_trackers, trace, result>>

NoResult == [raised |-> "", stories |-> <<>>]
\* original: the StoryGraph with_cycles_removed was called on, and the order
\* edges in which its cyclic_edges() listed the set cyclic_edge_ids.
NoOriginal == [called |-> FALSE, story_steps |-> <<>>, cyclic_edge_ids |-> {},
               edges |-> <<>>, story_end_checkpoints |-> <<>>]

StepIds(steps) == {steps[i].id : i \in 1..Len(steps)}

\* StoryGraph.get
get(lookup, step_id) == Get(lookup, step_id, None)

\* StoryGraph.__init__(steps, end_checkpoints)
Construct(steps, end_checkpoints) ==
    \E r \in order_steps(steps) :
        /\ story_steps' = steps
        /\ step_lookup' = [id \in StepIds(steps) |->
                             steps[CHOOSE i \in 1..Len(steps) : steps[i].id = id]]
        /\ ordered_ids' = r.ordered
        /\ cyclic_edge_ids' = r.removed_edges
        /\ story_end_checkpoints' =
              IF end_checkpoints # <<>> THEN end_checkpoints ELSE <<>>


\* Checkpoint names are opaque: an input list uses the names 1, 2, ... in
\* the order of their first occurrence.
LabelAt(f, k) == IF k % 2 = 1 THEN f[(k + 1) \div 2].start ELSE f[k \div 2].end
FirstUseOrder(f) ==
    \A k \in 1..(2 * Len(f)) :
        LabelAt(f, k) > 1 =>
            \E j \in 1..(k - 1) : LabelAt(f, j) = LabelAt(f, k) - 1

\* steps is an input step list: ids are pairwise distinct (the position).
InputSteps(steps, StartLabels, EndLabels, eventChoices) ==
    \E n \in 0..MaxSteps :
        \E f \in {g \in [1..n -> [start : StartLabels, end : EndLabels,
                                    events : eventChoices]]
                  : FirstUseOrder(g)} :
            steps = [i \in 1..n |-> [id |-> i, start |-> f[i].start,
                                       end |-> f[i].end,
                                       events |-> f[i].events]]

Idle ==
    /\ step_lookup = <<>>
    /\ ordered_ids = <<>>
    /\ cyclic_edge_ids = {}
    /\ story_end_checkpoints = <<>>
    /\ original = NoOriginal
    /\ max_number_of_trackers = None
    /\ trace = <<>>
    /\ result = NoResult

NoSort ==
    /\ graph = <<>>
    /\ sorted = [ordered |-> <<>>, removed_edges |-> {}]

\* The checkpoint names of the input lists of Spec.
GraphStarts == {STORY_START, 1}
GraphEnds == {STORY_START, 1, None}

Init ==
    /\ pc = "input"
    /\ InputSteps(story_steps, GraphStarts, GraphEnds, {TRUE})
    /\ Idle
    /\ NoSort

\* StoryGraph(story_steps)
NewStoryGraph ==
    /\ pc = "input"
    /\ Construct(story_steps, <<>>)
    /\ pc' = "graph"
    /\ UNCHANGED <<sortVars, original, buildVars>>

\* ---------------------------------------------------- with_cycles_removed
\* utils.generate_id / create_copy(use_new_id=True): a name no step and no
\* checkpoint of the graph carries.
FreshId(steps) == SetMax({0} \cup StepIds(steps)) + 1
FreshCheckpoint(steps, end_checkpoints) ==
    SetMax({0} \cup {steps[i].start : i \in 1..Len(steps)}
               \cup {steps[i].end : i \in 1..Len(steps)}
               \cup Range(end_checkpoints)) + 1

\* One iteration of "for s, e in cyclic_edges" on acc = (story_steps,
\* story_end_checkpoints); the names in use are those of acc and of the
\* graph's own steps (all_steps).
add_changed_steps(all_steps, s, e, acc) ==
    LET cid == FreshCheckpoint(all_steps \o acc.story_steps,
                               acc.story_end_checkpoints)
        id1 == FreshId(all_steps \o acc.story_steps)
        modified_start == [s EXCEPT !.id = id1, !.end = cid]
        modified_end == [e EXCEPT !.id = id1 + 1, !.start = cid]
    IN [story_steps |-> acc.story_steps \o <<modified_start, modified_end>>,
        story_end_checkpoints |-> Append(acc.story_end_checkpoints, cid)]

RECURSIVE add_all_changed_steps(_, _, _, _, _)
add_all_changed_steps(all_steps, lookup, edges, i, acc) ==
    IF i > Len(edges) THEN acc
    ELSE add_all_changed_steps(all_steps, lookup, edges, i + 1,
            add_changed_steps(all_steps, get(lookup, edges[i][1]),
                              get(lookup, edges[i][2]), acc))

\* remaining_steps that also drops the targets of the cyclic edges.
remaining_steps_no_targets(steps, edges) ==
    LET steps_to_be_removed == {edges[i][1] : i \in 1..Len(edges)}
                                  \cup {edges[i][2] : i \in 1..Len(edges)}
    IN SelectSeq(steps, LAMBDA s : s.id \notin steps_to_be_removed)

\* The steps that stay: "if s.id not in steps_to_be_removed".
remaining_steps(steps, edges) ==
    LET steps_to_be_removed == {edges[i][1] : i \in 1..Len(edges)}
    IN SelectSeq(steps, LAMBDA s : s.id \notin steps_to_be_removed)

\* (story_steps, story_end_checkpoints) handed to the new StoryGraph, for
\* the order edges in which cyclic_edges() lists the set cyclic_edge_ids.
cycles_removed(steps, lookup, end_checkpoints, edges) ==
    add_all_changed_steps(steps, lookup, edges, 1,
        [story_steps |-> remaining_steps(steps, edges),
         story_end_checkpoints |-> end_checkpoints])

\* The orders in which a list comprehension may walk a set.
Orderings(S) ==
    {q \in [1..Cardinality(S) -> S] : \A e \in S : \E i \in DOMAIN q : q[i] = e}

WithCyclesRemoved ==
    /\ pc = "graph"
    /\ ~original.called
    /\ Cardinality(cyclic_edge_ids) <= MaxCyclicEdges
    /\ \E edges \in Orderings(cyclic_edge_ids) :
         LET new == cycles_removed(story_steps, step_lookup,
                                   story_end_checkpoints, edges)
         IN /\ Construct(new.story_steps, new.story_end_checkpoints)
            /\ original' = [called |-> TRUE,
                            story_steps |-> story_steps,
                            cyclic_edge_ids |-> cyclic_edge_ids,
                            edges |-> edges,
                            story_end_checkpoints |-> story_end_checkpoints]
    /\ UNCHANGED <<pc, sortVars, buildVars>>

Next ==
    \/ NewStoryGraph
    \/ WithCyclesRemoved

Spec == Init /\ [][Next]_vars

\* ----------------------------------------------------------- build_stories
\* utils.subsample_array(arr, max_values, rand): the lists it may return.
subsample_array(arr, max_values) ==
    IF Len(arr) <= max_values THEN {arr}
    ELSE {[j \in 1..max_values |-> arr[SetToSeq(S)[j]]]
          : S \in {T \in SUBSET (1..Len(arr)) : Cardinality(T) = max_values}}

\* The values of max_number_of_trackers build_stories is called with.
TrackerLimits == {None} \cup (1..MaxTrackers)

\* incoming_choices without the call of subsample_array.
incoming_choices_all(trackers, limit) == {trackers}

\* lines 103-105: the incoming trackers a step may be handed.
incoming_choices(trackers, limit) ==
    IF limit # None THEN subsample_array(trackers, limit) ELSE {trackers}

\* extended_trackers without "if events".
extended_trackers_always(step, incoming_trackers) ==
    [j \in 1..Len(incoming_trackers) |-> Append(incoming_trackers[j], step.id)]

\* lines 107-115: the stories that leave the step.
extended_trackers(step, incoming_trackers) ==
    IF step.events
    THEN [j \in 1..Len(incoming_trackers) |->
            Append(incoming_trackers[j], step.id)]
    ELSE <<>>

\* lines 120-122
extend_end_checkpoint(active_trackers, step, trackers) ==
    LET e == end_checkpoint_name(step)
        present == IF e \notin DOMAIN active_trackers
                   THEN Put(active_trackers, e, <<>>)
                   ELSE active_trackers
    IN Put(present, e, present[e] \o trackers)

\* One iteration of "for step in self.ordered_steps()": the runs that may
\* follow run.  A run is the dictionary active_trackers and, per iteration
\* so far, the step, whether its start checkpoint was in the dictionary, the
\* incoming trackers it was handed and the dictionary it left.
process_step(step, limit, run) ==
    IF start_checkpoint_name(step) \in DOMAIN run.active_trackers
    THEN {LET after == extend_end_checkpoint(run.active_trackers, step,
                           extended_trackers(step, incoming))
          IN [active_trackers |-> after,
              trace |-> Append(run.trace,
                               [step |-> step.id, reached |-> TRUE,
                                incoming |-> incoming,
                                active_trackers |-> after])]
          : incoming \in
              incoming_choices(
                  run.active_trackers[start_checkpoint_name(step)], limit)}
    ELSE {[run EXCEPT !.trace =
              Append(@, [step |-> step.id, reached |-> FALSE,
                         incoming |-> <<>>,
                         active_trackers |-> run.active_trackers])]}

RECURSIVE build_loop(_, _, _, _, _)
build_loop(lookup, ordered, limit, i, run) ==
    IF i > Len(ordered) THEN {run}
    ELSE UNION {build_loop(lookup, ordered, limit, i + 1, r)
                : r \in process_step(get(lookup, ordered[i]), limit, run)}

\* line 89: active_trackers = {STORY_START: [Story()]}
initial_trackers == (STORY_START :> <<(<<>>)>>)

\* line 124: return active_trackers[None]
returned(active_trackers) ==
    IF None \in DOMAIN active_trackers
    THEN [raised |-> "", stories |-> active_trackers[None]]
    ELSE [raised |-> "KeyError", stories |-> <<>>]

\* build_stories(domain, max_number_of_trackers)
BuildStories ==
    /\ pc = "graph"
    /\ \E limit \in TrackerLimits :
         \E run \in build_loop(step_lookup, ordered_ids, limit, 1,
                               [active_trackers |-> initial_trackers,
                                trace |-> <<>>]) :
            /\ max_number_of_trackers' = limit
            /\ trace' = run.trace
            /\ result' = returned(run.active_trackers)
    /\ pc' = "done"
    /\ UNCHANGED <<sortVars, graphVars, original>>

\* The checkpoint names of the input lists of SpecStories.
StoryStarts == {STORY_START, 1, 2}
StoryEnds == {1, 2, None}

InitStories ==
    /\ pc = "input"
    /\ InputSteps(story_steps, StoryStarts, StoryEnds, BOOLEAN)
    /\ Idle
    /\ NoSort

NextStories ==
    \/ NewStoryGraph
    \/ BuildStories

SpecStories == InitStories /\ [][NextStories]_vars

\* ------------------------------------------------------------ SpecSort
\* The docstring's example_graph with a..f as 1..6.
example_graph ==
    (1 :> <<2, 3, 4>>) @@ (2 :> <<>>) @@ (3 :> <<4>>) @@ (4 :> <<>>)
        @@ (5 :> <<6>>) @@ (6 :> <<>>)

\* Adjacency dictionaries over at most MaxNodes keys; a successor need not
\* be a key.
RawGraphs ==
    UNION {[1..n -> {SetToSeq(S) : S \in SUBSET (1..MaxNodes)}]
           : n \in 0..MaxNodes}

InitSort ==
    /\ pc = "sort"
    /\ story_steps = <<>>
    /\ Idle
    /\ graph \in RawGraphs \cup {example_graph}
    /\ sorted = [ordered |-> <<>>, removed_edges |-> {}]

TopologicalSort ==
    /\ pc = "sort"
    /\ \E r \in topological_sort(graph) : sorted' = r
    /\ pc' = "sorted"
    /\ UNCHANGED <<graph, graphVars, original, buildVars>>

NextSort == TopologicalSort

SpecSort == InitSort /\ [][NextSort]_vars

\* =================================================================
\* Properties
\* =================================================================

\* The edges of an adjacency dictionary.
Edges(g) == UNION {{<<u, g[u][i]>> : i \in 1..Len(g[u])} : u \in DOMAIN g}
Nodes(g) == DOMAIN g \cup {e[2] : e \in Edges(g)}

\* The edges between steps: u -> v when u ends at the checkpoint v starts at.
StepEdges(steps) ==
    {<<steps[i].id, steps[j].id>> : <<i, j>> \in
        {ij \in (1..Len(steps)) \X (1..Len(steps)) :
            steps[ij[1]].end = steps[ij[2]].start}}

RECURSIVE TransitiveClosure(_)
TransitiveClosure(R) ==
    LET R2 == R \cup {<<pq[1][1], pq[2][2]>> : pq \in
                        {x \in R \X R : x[1][2] = x[2][1]}}
    IN IF R2 = R THEN R ELSE TransitiveClosure(R2)

\* Nodes N with edges E hold no cycle: peeling off the nodes without a
\* successor among those left ends with none left.
RECURSIVE Peels(_, _)
Peels(N, E) ==
    LET sinks == {n \in N : \A e \in E : e[1] = n => e[2] \notin N}
    IN IF N = {} THEN TRUE
       ELSE IF sinks = {} THEN FALSE
       ELSE Peels(N \ sinks, E)

IsAcyclic(E) == Peels({e[1] : e \in E} \cup {e[2] : e \in E}, E)

\* u occurs in seq, v occurs in seq, and every u stands before every v.
Precedes(seq, u, v) ==
    /\ \E i \in 1..Len(seq) : seq[i] = u
    /\ \E j \in 1..Len(seq) : seq[j] = v
    /\ \A i, j \in 1..Len(seq) : (seq[i] = u /\ seq[j] = v) => i < j

\* seq lists every element of S exactly once.
ListsExactlyOnce(seq, S) == Len(seq) = Cardinality(S) /\ Range(seq) = S

\* ------------------------------------------------------------------- C1
\* C1: for a StoryGraph whose sort reported at least one back edge, the
\* graph with_cycles_removed() returns is acyclic: its fresh sort reports
\* no cyclic edge.  (Stated as claimed; the code violates it.)
C1_CyclesRemoved ==
    (original.called /\ original.cyclic_edge_ids # {})
        => cyclic_edge_ids = {}

\* ------------------------------------------------------------------- C3
\* C3: over N steps with pairwise distinct ids, order_steps returns a
\* sequence holding exactly those N ids, each exactly once.
C3_OrderStepsTotal ==
    (pc = "graph"
       /\ Cardinality(StepIds(story_steps)) = Len(story_steps))
        => ListsExactlyOnce(ordered_ids, StepIds(story_steps))

\* A graph of three steps with a cycle and at least two back edges.
C3_Witness ==
    /\ pc = "graph"
    /\ ~original.called
    /\ Len(story_steps) = 3
    /\ Cardinality(cyclic_edge_ids) >= 2
    /\ ListsExactlyOnce(ordered_ids, {1, 2, 3})

\* ------------------------------------------------------------------- C4
\* C4: whichever nodes set.pop() hands out, every edge u -> v of the graph
\* that is not in removed_edges has u before v in ordered; so the graph
\* without removed_edges is acyclic, and an acyclic graph has no removed edge.
C4_RetainedEdgesForward ==
    pc = "sorted" =>
        /\ \A e \in Edges(graph) \ sorted.removed_edges :
              Precedes(sorted.ordered, e[1], e[2])
        /\ IsAcyclic(Edges(graph) \ sorted.removed_edges)
        /\ IsAcyclic(Edges(graph)) => sorted.removed_edges = {}

\* The docstring's example, sorted, with e before f before a.
C4_Witness ==
    /\ pc = "sorted"
    /\ graph = example_graph
    /\ sorted.removed_edges = {}
    /\ Precedes(sorted.ordered, 5, 6)
    /\ Precedes(sorted.ordered, 6, 1)
    /\ Precedes(sorted.ordered, 3, 4)

\* ------------------------------------------------------------------- C6
\* g is one simple directed cycle through all its nodes (a self-loop when
\* there is one node).
IsSimpleCycle(g) ==
    /\ DOMAIN g # {}
    /\ \A u \in DOMAIN g : Len(g[u]) = 1 /\ g[u][1] \in DOMAIN g
    /\ TransitiveClosure(Edges(g)) = (DOMAIN g) \X (DOMAIN g)

\* C6: on a graph that is one simple directed cycle, topological_sort
\* reports exactly one back edge whichever node it starts at, the edge is
\* an edge of the cycle, and ordered is a topological order of the graph
\* without it.
C6_OneBackEdgePerCycle ==
    (pc = "sorted" /\ IsSimpleCycle(graph)) =>
        /\ Cardinality(sorted.removed_edges) = 1
        /\ sorted.removed_edges \subseteq Edges(graph)
        /\ ListsExactlyOnce(sorted.ordered, DOMAIN graph)
        /\ \A e \in Edges(graph) \ sorted.removed_edges :
              Precedes(sorted.ordered, e[1], e[2])

\* The cycle 1 -> 2 -> 3 -> 1 entered at 3: the back edge is (2, 3).
C6_Witness ==
    /\ pc = "sorted"
    /\ graph = (1 :> <<2>>) @@ (2 :> <<3>>) @@ (3 :> <<1>>)
    /\ sorted.removed_edges = {<<2, 3>>}
    /\ sorted.ordered = <<3, 1, 2>>

\* ------------------------------------------------------------------- C9
OriginalLabels ==
    {original.story_steps[i].start : i \in 1..Len(original.story_steps)}
        \cup {original.story_steps[i].end : i \in 1..Len(original.story_steps)}
        \cup Range(original.story_end_checkpoints)

OriginalStep(id) ==
    original.story_steps[CHOOSE i \in 1..Len(original.story_steps) :
                            original.story_steps[i].id = id]

\* C9: the step list of the graph with_cycles_removed returns is the
\* original steps that are no source of a back edge, in their order,
\* followed per back edge (u, v) by a copy of u with a new id ending at a
\* checkpoint minted for the edge and a copy of v with a new id starting
\* at it; the end-checkpoint list grows by one new name per back edge.
C9_CycleSurgery ==
    original.called =>
        LET old == original.story_steps
            edges == original.edges
            sources == {e[1] : e \in original.cyclic_edge_ids}
            kept == SelectSeq(old, LAMBDA s : s.id \notin sources)
            k == Len(kept)
            oldcps == original.story_end_checkpoints
            m == Len(oldcps)
        IN /\ ListsExactlyOnce(edges, original.cyclic_edge_ids)
           /\ Len(story_steps) = Len(old) - Cardinality(sources)
                                   + 2 * Cardinality(original.cyclic_edge_ids)
           /\ SubSeq(story_steps, 1, k) = kept
           /\ \A e \in original.cyclic_edge_ids :
                 e[2] \notin sources => \E i \in 1..k : kept[i].id = e[2]
           /\ Len(story_end_checkpoints) = m + Len(edges)
           /\ SubSeq(story_end_checkpoints, 1, m) = oldcps
           /\ \A i \in 1..Len(edges) :
                 LET cid == story_end_checkpoints[m + i]
                     cu == story_steps[k + 2 * i - 1]
                     cv == story_steps[k + 2 * i]
                     u == OriginalStep(edges[i][1])
                     v == OriginalStep(edges[i][2])
                 IN /\ cid \notin OriginalLabels
                    /\ \A j \in 1..Len(edges) :
                          j # i => story_end_checkpoints[m + j] # cid
                    /\ cu = [u EXCEPT !.id = cu.id, !.end = cid]
                    /\ cv = [v EXCEPT !.id = cv.id, !.start = cid]
                    /\ cu.id \notin StepIds(old)
                    /\ cv.id \notin StepIds(old)
           /\ Cardinality(StepIds(story_steps)) = Len(story_steps)

\* A step that is the source of two back edges while another step, only a
\* target, stays.
C9_Witness ==
    /\ original.called
    /\ \E e1, e2 \in original.cyclic_edge_ids :
          e1 # e2 /\ e1[1] = e2[1]
    /\ \E e \in original.cyclic_edge_ids :
          /\ \A d \in original.cyclic_edge_ids : d[1] # e[2]
          /\ e[2] \in StepIds(story_steps)

\* --------------------------------------------------------- build_stories
Step(id) == step_lookup[id]

\* active_trackers as the i-th iteration of the loop found it.
TrackersBefore(i) ==
    IF i = 1 THEN (STORY_START :> <<(<<>>)>>) ELSE trace[i - 1].active_trackers

Frontier(trackers, c) == Get(trackers, c, <<>>)

\* The stories the i-th iteration added at the end checkpoint of its step.
Added(i) ==
    LET e == Step(trace[i].step).end
        was == Frontier(TrackersBefore(i), e)
        is == Frontier(trace[i].active_trackers, e)
    IN SubSeq(is, Len(was) + 1, Len(is))

Injective(seq) == \A i, j \in 1..Len(seq) : seq[i] = seq[j] => i = j

\* ------------------------------------------------------------------- C2
\* C2: build_stories returns an empty list, without raising, whenever no
\* step that was reached ends at the end sentinel None (a graph of zero
\* steps included).  (Stated as claimed; the code violates it.)
C2_EmptyWhenNoEnd ==
    (pc = "done"
       /\ \A i \in 1..Len(trace) :
             trace[i].reached => Step(trace[i].step).end # None)
        => (result.raised = "" /\ result.stories = <<>>)

\* ------------------------------------------------------------------- C5
\* The step paths from the start sentinel to the end sentinel.
RECURSIVE PathsFrom(_, _)
PathsFrom(c, left) ==
    (IF c = None THEN {<<>>} ELSE {})
      \cup UNION {{<<id>> \o p : p \in PathsFrom(Step(id).end, left \ {id})}
                  : id \in {x \in left : Step(x).start = c}}

NoFrontierExceeded ==
    max_number_of_trackers # None =>
        \A i \in 1..Len(trace) :
            trace[i].reached =>
               Len(TrackersBefore(i)[Step(trace[i].step).start])
                   <= max_number_of_trackers

\* C5: on an acyclic graph whose steps all have events, with no frontier
\* above max_number_of_trackers, build_stories returns exactly the step
\* paths from the start sentinel to the end sentinel, each once.  (Stated as
\* claimed; the code violates it where C2's KeyError is raised.)
C5_StoriesArePaths ==
    (pc = "done"
       /\ IsAcyclic(StepEdges(story_steps))
       /\ \A i \in 1..Len(story_steps) : story_steps[i].events
       /\ NoFrontierExceeded)
        => /\ result.raised = ""
           /\ ListsExactlyOnce(result.stories,
                               PathsFrom(STORY_START, StepIds(story_steps)))

\* ------------------------------------------------------------------- C7
\* C7 as claimed: with a limit M, every reached step extends exactly M
\* members of a frontier of more than M stories, and the whole of a smaller
\* frontier.  (The code violates it at a step without events.)
C7_ExtendsSubsample ==
    (pc = "done" /\ max_number_of_trackers # None) =>
        \A i \in 1..Len(trace) :
            trace[i].reached =>
               LET s == Step(trace[i].step)
                   frontier == TrackersBefore(i)[s.start]
                   M == max_number_of_trackers
               IN /\ Len(frontier) > M => Len(Added(i)) = M
                  /\ Len(frontier) <= M => Len(Added(i)) = Len(frontier)

\* C7 amended: with a limit M, every reached step that has events extends
\* exactly M distinct members of a frontier of more than M stories and the
\* whole of a smaller frontier, a step without events extends none; so no
\* step adds more than M stories at its end checkpoint.
C7_ExtendsSubsampleOfEventSteps ==
    (pc = "done" /\ max_number_of_trackers # None) =>
        \A i \in 1..Len(trace) :
            trace[i].reached =>
               LET s == Step(trace[i].step)
                   frontier == TrackersBefore(i)[s.start]
                   M == max_number_of_trackers
                   added == Added(i)
                   extended == [j \in 1..Len(added) |->
                                   SubSeq(added[j], 1, Len(added[j]) - 1)]
               IN /\ Len(added) <= M
                  /\ \A j \in 1..Len(added) :
                        added[j] = Append(extended[j], s.id)
                  /\ Injective(frontier) => Injective(extended)
                  /\ Range(extended) \subseteq Range(frontier)
                  /\ (s.events /\ Len(frontier) > M) => Len(extended) = M
                  /\ (s.events /\ Len(frontier) <= M) =>
                        Range(extended) = Range(frontier)
                           /\ Len(extended) = Len(frontier)
                  /\ ~s.events => extended = <<>>

\* A step with events finds two stories at its start checkpoint and, the
\* limit being 1, extends one of them.
C7_Witness ==
    /\ pc = "done"
    /\ max_number_of_trackers = 1
    /\ \E i \in 1..Len(trace) :
          /\ trace[i].reached
          /\ Step(trace[i].step).events
          /\ Len(TrackersBefore(i)[Step(trace[i].step).start]) = 2
          /\ Len(Added(i)) = 1

\* ------------------------------------------------------------------- C8
\* C8: on an acyclic graph, when the loop reaches a step S every step that
\* ends at S's start checkpoint has had its iteration, and the frontier at
\* that checkpoint stays as S found it.
C8_FrontierFinal ==
    (pc = "done" /\ IsAcyclic(StepEdges(story_steps))) =>
        \A i \in 1..Len(trace) :
            LET c == Step(trace[i].step).start
            IN /\ \A n \in 1..Len(story_steps) :
                     story_steps[n].end = c =>
                        \E j \in 1..(i - 1) : trace[j].step = story_steps[n].id
               /\ \A j \in i..Len(trace) :
                     Frontier(trace[j].active_trackers, c)
                        = Frontier(TrackersBefore(i), c)

\* A story of three steps whose steps are listed against their order.
C8_Witness ==
    /\ pc = "done"
    /\ IsAcyclic(StepEdges(story_steps))
    /\ Len(trace) = 3
    /\ \E i \in 1..Len(result.stories) :
          /\ Len(result.stories[i]) = 3
          /\ result.stories[i][1] > result.stories[i][2]

\* ------------------------------------------------------------------ C10
\* c is fed by steps, none of which has events.
FedByZeroEventStepsOnly(c) ==
    /\ c # STORY_START
    /\ \A n \in 1..Len(story_steps) :
          story_steps[n].end = c => ~story_steps[n].events

\* C10: the iteration of a step without events leaves every frontier as
\* it was (at most an empty entry appears for its end checkpoint); no
\* returned story holds such a step, and a checkpoint fed only by such
\* steps hands no story to the steps that start at it.
C10_ZeroEventSkip ==
    pc = "done" =>
        /\ \A i \in 1..Len(trace) :
              ~Step(trace[i].step).events =>
                 LET was == TrackersBefore(i)
                     is == trace[i].active_trackers
                     e == Step(trace[i].step).end
                 IN /\ Added(i) = <<>>
                    /\ \A c \in DOMAIN was : c \in DOMAIN is /\ is[c] = was[c]
                    /\ \A c \in DOMAIN is \ DOMAIN was : c = e /\ is[c] = <<>>
        /\ \A i \in 1..Len(result.stories) :
              \A j \in 1..Len(result.stories[i]) :
                 Step(result.stories[i][j]).events
        /\ \A i \in 1..Len(trace) :
              (trace[i].reached
                 /\ FedByZeroEventStepsOnly(Step(trace[i].step).start))
                  => trace[i].incoming = <<>>

\* A reached step without events finds a story, opens the empty entry of
\* its end checkpoint, and a later step with events reads that entry.
C10_Witness ==
    /\ pc = "done"
    /\ \E i, j \in 1..Len(trace) :
          /\ i < j
          /\ trace[i].reached
          /\ ~Step(trace[i].step).events
          /\ Len(TrackersBefore(i)[Step(trace[i].step).start]) >= 1
          /\ Step(trace[i].step).end \notin DOMAIN TrackersBefore(i)
          /\ trace[j].reached
          /\ Step(trace[j].step).events
          /\ Step(trace[j].step).start = Step(trace[i].step).end
          /\ trace[j].incoming = <<>>

====
